---- MODULE Spec2Model ----
(***************************************************************************)
(* Anonydoc: the text-transformation engine (entipy).                      *)
(*                                                                         *)
(* A string is a sequence of one-character strings, so that slicing,       *)
(* str.replace and the f-string that builds a pseudonym are computed       *)
(* character by character.  Character offsets are 0-based as in the        *)
(* source; a dict is the sequence of its <<key, value>> items in insertion *)
(* order, which is the order Python iterates it in.                        *)
(***************************************************************************)
EXTENDS Integers, Sequences, FiniteSets, TLC

(***************************************************************************)
(* Bounds of the model.                                                    *)
(***************************************************************************)
MaxCands == 2

MaxLen == 3

MaxFill == 9

Labels == { <<"P">>, <<"P", "_", "1">> }

Person == <<"P">>

(***************************************************************************)
(* Python strings, slices and dicts.                                       *)
(***************************************************************************)
Max(a, b) == IF a >= b THEN a ELSE b

Min(a, b) == IF a <= b THEN a ELSE b

\* The way a slice bound is clipped: a negative bound counts from the end.
PyIndex(i, n) == IF i < 0 THEN Max(0, i + n) ELSE Min(i, n)

\* s[lo:hi]
PySlice(s, lo, hi) ==
    LET a == PyIndex(lo, Len(s))
        b == PyIndex(hi, Len(s))
    IN  IF a >= b THEN << >> ELSE SubSeq(s, a + 1, b)

\* s[:hi]
PyPrefix(s, hi) == PySlice(s, 0, hi)

\* s[lo:]
PySuffix(s, lo) == PySlice(s, lo, Len(s))

RECURSIVE ReplaceFromLoose(_, _, _, _)
\* A replace that takes for an occurrence of old any token that differs from
\* it in its last character only.
ReplaceFromLoose(s, old, new, i) ==
    IF i > Len(s) THEN << >>
    ELSE IF /\ i + Len(old) - 1 <= Len(s)
            /\ SubSeq(s, i, i + Len(old) - 2) = SubSeq(old, 1, Len(old) - 1)
         THEN new \o ReplaceFromLoose(s, old, new, i + Len(old))
         ELSE << s[i] >> \o ReplaceFromLoose(s, old, new, i + 1)

RECURSIVE ReplaceFrom(_, _, _, _)
\* str.replace scanning s from the 1-based position i, for a non-empty old.
ReplaceFrom(s, old, new, i) ==
    IF i > Len(s) THEN << >>
    ELSE IF i + Len(old) - 1 <= Len(s) /\ SubSeq(s, i, i + Len(old) - 1) = old
         THEN new \o ReplaceFrom(s, old, new, i + Len(old))
         ELSE << s[i] >> \o ReplaceFrom(s, old, new, i + 1)

RECURSIVE Interleave(_, _, _)
\* str.replace("", new): new goes before every character and at the end.
Interleave(s, new, i) ==
    IF i > Len(s) THEN new
    ELSE new \o << s[i] >> \o Interleave(s, new, i + 1)

\* s.replace(old, new): every non-overlapping occurrence, left to right.
StrReplace(s, old, new) ==
    IF old = << >> THEN Interleave(s, new, 1) ELSE ReplaceFrom(s, old, new, 1)

\* old in s, for strings.
IsSubstring(old, s) ==
    \E i \in 1..(Len(s) - Len(old) + 1) : SubSeq(s, i, i + Len(old) - 1) = old

DigitChar == << "0", "1", "2", "3", "4", "5", "6", "7", "8", "9" >>

RECURSIVE Decimal(_)
\* str(n) for n >= 0, as the f-string formats the counter.
Decimal(n) ==
    IF n < 10 THEN << DigitChar[n + 1] >>
    ELSE Decimal(n \div 10) \o << DigitChar[(n % 10) + 1] >>

\* key in d
DictHas(d, key) == \E i \in 1..Len(d) : d[i][1] = key

\* d[key]
DictGet(d, key) == d[CHOOSE i \in 1..Len(d) : d[i][1] = key][2]

\* d[key] = val: an existing key keeps its place, a new key goes last.
DictSet(d, key, val) ==
    IF DictHas(d, key)
    THEN [i \in 1..Len(d) |-> IF d[i][1] = key THEN << key, val >> ELSE d[i]]
    ELSE Append(d, << key, val >>)

(***************************************************************************)
(* State.                                                                  *)
(***************************************************************************)
VARIABLES
    counter,          \* Pseudonymizer.counter: label -> int (0 when absent)
    pseudonym_table,  \* Pseudonymizer.pseudonym_table: original -> pseudonym
    reverse_table,    \* Pseudonymizer.reverse_table: pseudonym -> original
    rev_call,         \* the latest reverse call: its argument and its value
    context_window,   \* TextEntityProcessor.context_window
    pc,               \* where the processor is: idle, loop, done or raised
    mode,             \* the handler running or last run: anonymize, pseudonymize
    text,             \* _build_processing: text
    label_to_tag,     \* anonymize: label_to_tag_mapping
    raw_preds,        \* _extract_entities: raw_preds, what the detector returned
    sorted_entities,  \* _build_processing: sorted_entities
    word_spans,       \* _build_processing: word_spans
    entities,         \* _build_processing: entities
    redacted,         \* _build_processing: redacted
    result,           \* the ProcessingResult returned (session_state[result_key])
    mapping_doc,      \* the mapping.json the results page offers for download
    restored,         \* what the depseudonymisation page shows as restored text
    th,               \* the threads inside generate: position and locals
    map_call          \* the latest _char_to_word_index call: arguments and value

regvars == << counter, pseudonym_table, reverse_table >>

runvars == << pc, mode, text, label_to_tag, raw_preds, sorted_entities,
              word_spans, entities, redacted, result >>

uivars == << mapping_doc, restored >>

vars == << counter, pseudonym_table, reverse_table, rev_call,
           context_window, pc, mode, text, label_to_tag, raw_preds,
           sorted_entities, word_spans, entities, redacted, result,
           mapping_doc, restored, th, map_call >>

NoRevCall == [called |-> FALSE, text |-> << >>, val |-> << >>]

NoResult ==
    [returned |-> FALSE, original_text |-> << >>, processed_text |-> << >>,
     entities |-> << >>, contexts |-> << >>, pseudonym_table |-> << >>]

Threads == { 1, 2 }

IdleThread ==
    [pc |-> "idle", label |-> << >>, x |-> << >>, tmp |-> 0,
     pseudonym |-> << >>, ret |-> << >>]

NoDoc == [written |-> FALSE, items |-> << >>]

NoRestored == [shown |-> FALSE, content |-> << >>]

NoMapCall == [called |-> FALSE, char_idx |-> 0, word_spans |-> << >>, val |-> 0]

(***************************************************************************)
(* Pseudonymizer.                                                          *)
(***************************************************************************)
\* f"{label}_{n}"
Pseudonym(label, n) == label \o << "_" >> \o Decimal(n)

\* generate without the test for an existing pseudonym (lines 38-39 dropped).
generate_unchecked(c, pt, rt, label, original_text) ==
    LET c2 == [c EXCEPT ![label] = @ + 1]
        pseudonym == Pseudonym(label, c2[label])
    IN  [counter |-> c2,
         pseudonym_table |-> DictSet(pt, original_text, pseudonym),
         reverse_table |-> DictSet(rt, pseudonym, original_text),
         val |-> pseudonym]

\* generate without the increment of the counter (line 41 dropped).
generate_no_increment(c, pt, rt, label, original_text) ==
    IF DictHas(pt, original_text)
    THEN [counter |-> c, pseudonym_table |-> pt, reverse_table |-> rt,
          val |-> DictGet(pt, original_text)]
    ELSE LET pseudonym == Pseudonym(label, c[label])
         IN  [counter |-> c,
              pseudonym_table |-> DictSet(pt, original_text, pseudonym),
              reverse_table |-> DictSet(rt, pseudonym, original_text),
              val |-> pseudonym]

\* generate whose test for an existing pseudonym is per label: a pseudonym
\* issued under another label does not count.
generate_per_label(c, pt, rt, label, original_text) ==
    IF /\ DictHas(pt, original_text)
       /\ \E n \in 1..Len(pt) : DictGet(pt, original_text) = Pseudonym(label, n)
    THEN [counter |-> c, pseudonym_table |-> pt, reverse_table |-> rt,
          val |-> DictGet(pt, original_text)]
    ELSE generate_unchecked(c, pt, rt, label, original_text)

\* generate that increments the counter twice: a number is skipped.
generate_skipping(c, pt, rt, label, original_text) ==
    IF DictHas(pt, original_text)
    THEN [counter |-> c, pseudonym_table |-> pt, reverse_table |-> rt,
          val |-> DictGet(pt, original_text)]
    ELSE LET c2 == [c EXCEPT ![label] = @ + 2]
             pseudonym == Pseudonym(label, c2[label])
         IN  [counter |-> c2,
              pseudonym_table |-> DictSet(pt, original_text, pseudonym),
              reverse_table |-> DictSet(rt, pseudonym, original_text),
              val |-> pseudonym]

\* Pseudonymizer.generate on the registry (c, pt, rt): the registry after the
\* call and the value returned.
generate(c, pt, rt, label, original_text) ==
    IF DictHas(pt, original_text)
    THEN [counter |-> c, pseudonym_table |-> pt, reverse_table |-> rt,
          val |-> DictGet(pt, original_text)]
    ELSE LET c2 == [c EXCEPT ![label] = @ + 1]
             pseudonym == Pseudonym(label, c2[label])
         IN  [counter |-> c2,
              pseudonym_table |-> DictSet(pt, original_text, pseudonym),
              reverse_table |-> DictSet(rt, pseudonym, original_text),
              val |-> pseudonym]

RECURSIVE ReverseFrom(_, _, _)
\* The loop of Pseudonymizer.reverse from the i-th item of the reverse table.
ReverseFrom(rt, txt, i) ==
    IF i > Len(rt) THEN txt
    ELSE ReverseFrom(rt, StrReplace(txt, rt[i][1], rt[i][2]), i + 1)

\* Pseudonymizer.reverse
reverse(rt, txt) == ReverseFrom(rt, txt, 1)

(***************************************************************************)
(* TextEntityProcessor: word spans, the character-to-word map, the         *)
(* threshold filter and the sort of _build_processing.                     *)
(***************************************************************************)
\* A character the regular expression \s matches.
IsSpace(ch) == ch \in { " ", "\t", "\n" }

RECURSIVE WordEnd(_, _)
\* The end (exclusive, 0-based) of the run of non-space characters holding i.
WordEnd(txt, i) ==
    IF i >= Len(txt) \/ IsSpace(txt[i + 1]) THEN i ELSE WordEnd(txt, i + 1)

RECURSIVE WordSpansFrom(_, _)
\* re.finditer(r"\S+", text) from the 0-based offset i on.
WordSpansFrom(txt, i) ==
    IF i >= Len(txt) THEN << >>
    ELSE IF IsSpace(txt[i + 1]) THEN WordSpansFrom(txt, i + 1)
    ELSE << << i, WordEnd(txt, i) >> >> \o WordSpansFrom(txt, WordEnd(txt, i))

\* _compute_word_spans
_compute_word_spans(txt) == WordSpansFrom(txt, 0)

\* The map that snaps an offset in a gap to the word after it: idx, not
\* max(0, idx - 1).
_char_to_word_index_next(char_idx, spans) ==
    LET inside == { i \in 1..Len(spans) :
                        spans[i][1] <= char_idx /\ char_idx < spans[i][2] }
        before == { i \in 1..Len(spans) : char_idx < spans[i][1] }
        first(S) == CHOOSE i \in S : \A j \in S : i <= j
    IN  IF inside # {} THEN first(inside) - 1
        ELSE IF before # {} THEN first(before) - 1
        ELSE Len(spans) - 1

\* _char_to_word_index; the value is a 0-based index as in the source.
_char_to_word_index(char_idx, spans) ==
    LET inside == { i \in 1..Len(spans) :
                        spans[i][1] <= char_idx /\ char_idx < spans[i][2] }
        before == { i \in 1..Len(spans) : char_idx < spans[i][1] }
        first(S) == CHOOSE i \in S : \A j \in S : i <= j
    IN  IF inside # {} THEN first(inside) - 1
        ELSE IF before # {} THEN Max(0, (first(before) - 1) - 1)
        ELSE Len(spans) - 1

\* TextEntityProcessor.threshold, in hundredths (the default is 0.5).
Threshold == 50

\* The score with 1.0 for a prediction without one: e.get('score', 1.0)
ScoreOfDefaultOne(e) == IF e.has_score THEN e.score ELSE 100

\* e.get('score', 0.0), in hundredths.
ScoreOf(e) == IF e.has_score THEN e.score ELSE 0

RECURSIVE FilterThreshold(_)
\* _extract_entities: the predictions kept, in the detector's order.
FilterThreshold(preds) ==
    IF preds = << >> THEN << >>
    ELSE (IF ScoreOf(Head(preds)) >= Threshold THEN << Head(preds) >> ELSE << >>)
         \o FilterThreshold(Tail(preds))

\* Where sorted() puts e into a list already in descending order of start:
\* after every element whose start is at least e's (the sort is stable).
InsertDesc(sorted, e) ==
    LET n == Cardinality({ i \in 1..Len(sorted) : sorted[i].start >= e.start })
    IN  SubSeq(sorted, 1, n) \o << e >> \o SubSeq(sorted, n + 1, Len(sorted))

RECURSIVE SortDescFrom(_, _, _)
SortDescFrom(raw, i, acc) ==
    IF i > Len(raw) THEN acc
    ELSE SortDescFrom(raw, i + 1, InsertDesc(acc, raw[i]))

\* Where an ascending sort puts e.
InsertAsc(sorted, e) ==
    LET n == Cardinality({ i \in 1..Len(sorted) : sorted[i].start <= e.start })
    IN  SubSeq(sorted, 1, n) \o << e >> \o SubSeq(sorted, n + 1, Len(sorted))

RECURSIVE SortAscFrom(_, _, _)
SortAscFrom(raw, i, acc) ==
    IF i > Len(raw) THEN acc
    ELSE SortAscFrom(raw, i + 1, InsertAsc(acc, raw[i]))

\* The sort without reverse=True: left to right.
SortByStartAsc(raw) == SortAscFrom(raw, 1, << >>)

\* No sort: the candidates in the order the detector gave them.
SortNone(raw) == raw

\* sorted(raw_entities, key=lambda e: e['start'], reverse=True)
SortByStartDesc(raw) == SortDescFrom(raw, 1, << >>)

\* The splice with the tail taken one character late: redacted[end + 1:].
SpliceLateTail(red, start, end, replacement) ==
    PyPrefix(red, start) \o replacement \o PySuffix(red, end + 1)

\* redacted[:start] + replacement + redacted[end:]
Splice(red, start, end, replacement) ==
    PyPrefix(red, start) \o replacement \o PySuffix(red, end)

\* The Entity with the offset of its last character for end: end - 1.
MakeEntityInclusiveEnd(raw, replacement, spans) ==
    [label |-> raw.label,
     text |-> raw.text,
     replacement_text |-> replacement,
     detection_confidence |-> ScoreOf(raw),
     char_position |-> [start |-> raw.start, end |-> raw.end - 1],
     word_position |->
        [start |-> _char_to_word_index(raw.start, spans),
         end |-> _char_to_word_index(raw.end - 1, spans) + 1]]

\* The Entity one iteration of the loop builds from raw.
MakeEntity(raw, replacement, spans) ==
    [label |-> raw.label,
     text |-> raw.text,
     replacement_text |-> replacement,
     detection_confidence |-> ScoreOf(raw),
     char_position |-> [start |-> raw.start, end |-> raw.end],
     word_position |->
        [start |-> _char_to_word_index(raw.start, spans),
         end |-> _char_to_word_index(raw.end - 1, spans) + 1]]

\* The rule with the empty string for a label without a tag: .get(label, "")
TagForEmptyDefault(mapping, label, span) ==
    IF DictHas(mapping, label) THEN DictGet(mapping, label) ELSE << >>

\* anonymize's replacement rule: label_to_tag_mapping.get(label, span)
TagFor(mapping, label, span) ==
    IF DictHas(mapping, label) THEN DictGet(mapping, label) ELSE span

(***************************************************************************)
(* Context snippets and the flat map of the result.                        *)
(***************************************************************************)
\* word_spans[i] raises IndexError unless -n <= i < n.
ListIndexOk(i, n) == -n <= i /\ i < n

\* word_spans[i], a negative i counting from the end.
ListAt(l, i) == IF i < 0 THEN l[Len(l) + i + 1] ELSE l[i + 1]

CwStart(ent, window) == Max(0, ent.word_position.start - window)

\* The end of the window without the clip at the number of words.
CwEndUnclipped(ent, window, total_words) == ent.word_position.end + window

CwEnd(ent, window, total_words) == Min(total_words, ent.word_position.end + window)

\* Whether the two word_spans lookups of ent's snippet are in range.
SnippetOk(ent, spans, window) ==
    /\ ListIndexOk(CwStart(ent, window), Len(spans))
    /\ ListIndexOk(CwEnd(ent, window, Len(spans)) - 1, Len(spans))

\* The ContextSnippet of ent.
Snippet(txt, ent, spans, window) ==
    LET cs == ListAt(spans, CwStart(ent, window))[1]
        ce == ListAt(spans, CwEnd(ent, window, Len(spans)) - 1)[2]
    IN  [entity |-> ent,
         left |-> PySlice(txt, cs, ent.char_position.start),
         right |-> PySlice(txt, ent.char_position.end, ce),
         window |-> window]

RECURSIVE PseudonymMapFirstFrom(_, _, _)
PseudonymMapFirstFrom(ents, i, acc) ==
    IF i > Len(ents) THEN acc
    ELSE PseudonymMapFirstFrom(ents, i + 1,
            IF ents[i].replacement_text # << >> /\ ~DictHas(acc, ents[i].text)
            THEN DictSet(acc, ents[i].text, ents[i].replacement_text)
            ELSE acc)

\* The flat map in which the first entity of a text wins (setdefault).
PseudonymMapFirstWins(ents) == PseudonymMapFirstFrom(ents, 1, << >>)

RECURSIVE PseudonymMapFrom(_, _, _)
PseudonymMapFrom(ents, i, acc) ==
    IF i > Len(ents) THEN acc
    ELSE PseudonymMapFrom(ents, i + 1,
            IF ents[i].replacement_text # << >>
            THEN DictSet(acc, ents[i].text, ents[i].replacement_text)
            ELSE acc)

\* {ent.text: ent.replacement_text for ent in entities if ent.replacement_text}
PseudonymMap(ents) == PseudonymMapFrom(ents, 1, << >>)

(***************************************************************************)
(* Operations.                                                             *)
(***************************************************************************)
\* TextEntityProcessor.__init__: the default context_window.
DefaultWindow == 20

\* The state after construction, the context window being one of W.
InitWith(W) ==
    /\ counter = [l \in Labels |-> 0]
    /\ pseudonym_table = << >>
    /\ reverse_table = << >>
    /\ rev_call = NoRevCall
    /\ context_window \in W
    /\ pc = "idle"
    /\ mode = "none"
    /\ text = << >>
    /\ label_to_tag = << >>
    /\ raw_preds = << >>
    /\ sorted_entities = << >>
    /\ word_spans = << >>
    /\ entities = << >>
    /\ redacted = << >>
    /\ result = NoResult
    /\ mapping_doc = NoDoc
    /\ restored = NoRestored
    /\ th = [t \in Threads |-> IdleThread]
    /\ map_call = NoMapCall

Init == InitWith({ DefaultWindow })

\* No call of the processor is running.
Quiet == pc \in { "idle", "done", "raised" }

\* A caller of the registry calls generate(label, x).
Generate(label, x) ==
    /\ Quiet
    /\ LET r == generate(counter, pseudonym_table, reverse_table, label, x)
       IN  /\ counter' = r.counter
           /\ pseudonym_table' = r.pseudonym_table
           /\ reverse_table' = r.reverse_table
    /\ UNCHANGED << rev_call, context_window, runvars, uivars, th, map_call >>

\* anonymize / pseudonymize up to the loop of _build_processing: the detector
\* returns preds, _extract_entities filters them, _build_processing computes
\* the word spans and sorts.
BeginRun(m, txt, mapping, preds) ==
    /\ pc' = "loop"
    /\ mode' = m
    /\ text' = txt
    /\ label_to_tag' = mapping
    /\ raw_preds' = preds
    /\ sorted_entities' = SortByStartDesc(FilterThreshold(preds))
    /\ word_spans' = _compute_word_spans(txt)
    /\ entities' = << >>
    /\ redacted' = txt
    /\ result' = NoResult
    /\ mapping_doc' = NoDoc
    /\ restored' = NoRestored
    /\ rev_call' = NoRevCall
    /\ UNCHANGED << regvars, context_window, th, map_call >>

\* TextEntityProcessor.anonymize(text, label_to_tag_mapping)
Anonymize(txt, mapping, preds) == BeginRun("anonymize", txt, mapping, preds)

\* TextEntityProcessor.pseudonymize(text, labels)
Pseudonymize(txt, preds) == BeginRun("pseudonymize", txt, << >>, preds)

\* One iteration of the loop over sorted_entities.
BuildStep ==
    /\ pc = "loop"
    /\ Len(entities) < Len(sorted_entities)
    /\ LET raw == sorted_entities[Len(entities) + 1]
           r == generate(counter, pseudonym_table, reverse_table, raw.label, raw.text)
           replacement == IF mode = "pseudonymize" THEN r.val
                          ELSE TagFor(label_to_tag, raw.label, raw.text)
       IN  /\ entities' = Append(entities, MakeEntity(raw, replacement, word_spans))
           /\ redacted' = Splice(redacted, raw.start, raw.end, replacement)
           /\ IF mode = "pseudonymize"
              THEN /\ counter' = r.counter
                   /\ pseudonym_table' = r.pseudonym_table
                   /\ reverse_table' = r.reverse_table
              ELSE UNCHANGED regvars
    /\ UNCHANGED << rev_call, context_window, pc, mode, text, label_to_tag,
                    raw_preds, sorted_entities, word_spans, result, uivars, th, map_call >>

\* After the loop: the context snippets, the flat map and the return; an
\* out-of-range word_spans lookup raises IndexError out of the call.
BuildFinish ==
    /\ pc = "loop"
    /\ Len(entities) = Len(sorted_entities)
    /\ IF \A i \in 1..Len(entities) : SnippetOk(entities[i], word_spans, context_window)
       THEN /\ pc' = "done"
            /\ result' =
                 [returned |-> TRUE,
                  original_text |-> text,
                  processed_text |-> redacted,
                  entities |-> entities,
                  contexts |-> [i \in 1..Len(entities) |->
                      Snippet(text, entities[i], word_spans, context_window)],
                  pseudonym_table |-> PseudonymMap(entities)]
       ELSE /\ pc' = "raised"
            /\ result' = NoResult
    /\ UNCHANGED << regvars, rev_call, context_window, mode, text,
                    label_to_tag, raw_preds, sorted_entities, word_spans,
                    entities, redacted, uivars, th, map_call >>

\* TextEntityProcessor.reverse_pseudonymization(txt)
ReversePseudonymization(txt) ==
    /\ Quiet
    /\ rev_call' = [called |-> TRUE, text |-> txt, val |-> reverse(reverse_table, txt)]
    /\ UNCHANGED << regvars, context_window, runvars, uivars, th, map_call >>

\* What json.dumps writes and json.load reads back of a flat str -> str dict:
\* the same items in the same order.
JsonRoundTrip(d) == d

\* display_results in pseudonymisation mode: the mapping offered for download.
DisplayResults ==
    /\ pc = "done"
    /\ mode = "pseudonymize"
    /\ ~mapping_doc.written
    /\ mapping_doc' = [written |-> TRUE, items |-> JsonRoundTrip(result.pseudonym_table)]
    /\ UNCHANGED << regvars, rev_call, context_window, runvars, restored, th, map_call >>

RECURSIVE ApplyMapping(_, _, _)
\* for pseudo, orig in mapping.items(): content = content.replace(pseudo, orig)
ApplyMapping(mapping, content, i) ==
    IF i > Len(mapping) THEN content
    ELSE ApplyMapping(mapping, StrReplace(content, mapping[i][1], mapping[i][2]), i + 1)

\* show_depseudonymisation on the downloaded text and the downloaded mapping.
ShowDepseudonymisation ==
    /\ pc = "done"
    /\ mapping_doc.written
    /\ ~restored.shown
    /\ restored' = [shown |-> TRUE,
                    content |-> ApplyMapping(mapping_doc.items, result.processed_text, 1)]
    /\ UNCHANGED << regvars, rev_call, context_window, runvars, mapping_doc, th, map_call >>

(***************************************************************************)
(* What the detector may return.                                           *)
(***************************************************************************)
\* One prediction of the detector for the span [s, e) of txt.
Pred(txt, s, e, l, sc) ==
    [start |-> s, end |-> e, label |-> l, text |-> PySlice(txt, s, e),
     has_score |-> TRUE, score |-> sc]

\* The detector contract: start < end, 0 <= start, end <= len(text).
ValidSpan(txt, s, e) == 0 <= s /\ s < e /\ e <= Len(txt)

NonOverlapping(preds) ==
    \A i, j \in 1..Len(preds) :
        i # j => (preds[i].end <= preds[j].start \/ preds[j].end <= preds[i].start)

SeqsUpTo(S, n) == UNION { [1..k -> S] : k \in 0..n }

\* Predictions that keep the contract, over the threshold, in any order.
ContractPreds(txt, labels) ==
    LET one == { Pred(txt, s, e, l, 60) :
                    s \in 0..Len(txt), e \in 0..Len(txt), l \in labels }
    IN  { ps \in SeqsUpTo({ p \in one : ValidSpan(txt, p.start, p.end) }, MaxCands) :
              NonOverlapping(ps) }

\* label_to_tag_mapping: a tag for Person, or the empty tag for Person.
TagMaps == { << << Person, <<"#">> >> >>, << << Person, << >> >> >> }

(***************************************************************************)
(* Spec: one processor used for run after run.                             *)
(***************************************************************************)
Texts == { <<"a", "a">>, <<"a", "b">> }

\* The detector answered ps for txt, and a pseudonymize call begins.
PseudonymizeText ==
    /\ Quiet
    /\ \E txt \in Texts :
          \E ps \in ContractPreds(txt, Labels) : Pseudonymize(txt, ps)

\* The caller reverses the text the last call returned.
ReverseProcessed ==
    /\ pc = "done"
    /\ ~rev_call.called
    /\ ReversePseudonymization(result.processed_text)

Next ==
    \/ PseudonymizeText
    \/ BuildStep
    \/ BuildFinish
    \/ ReverseProcessed

Spec == Init /\ [][Next]_vars

(***************************************************************************)
(* SpecSplice: one call of anonymize or pseudonymize on a new processor,   *)
(* for every text up to MaxLen and every detector answer in the contract.  *)
(***************************************************************************)
Alphabet == { "a", "b", " " }

TextsUpTo(n) == UNION { [1..k -> Alphabet] : k \in 0..n }

AnonymizeAnyText ==
    /\ pc = "idle"
    /\ \E txt \in TextsUpTo(MaxLen), m \in TagMaps :
          \E ps \in ContractPreds(txt, Labels) : Anonymize(txt, m, ps)

PseudonymizeAnyText ==
    /\ pc = "idle"
    /\ \E txt \in TextsUpTo(MaxLen) :
          \E ps \in ContractPreds(txt, Labels) : Pseudonymize(txt, ps)

NextSplice ==
    \/ AnonymizeAnyText
    \/ PseudonymizeAnyText
    \/ BuildStep
    \/ BuildFinish

SpecSplice == Init /\ [][NextSplice]_vars

(***************************************************************************)
(* SpecUntrusted: one call, the detector answering with any offsets.       *)
(***************************************************************************)
UntrustedTexts == { <<"a", "b">>, <<"a", " ", "b">> }

\* Predictions with offsets from -1 to len(text) + 1, in any order.
AnyPreds(txt) ==
    SeqsUpTo({ Pred(txt, s, e, Person, 60) :
                  s \in (-1)..(Len(txt) + 1), e \in (-1)..(Len(txt) + 1) }, MaxCands)

AnonymizeUntrusted ==
    /\ pc = "idle"
    /\ \E txt \in UntrustedTexts, m \in TagMaps :
          \E ps \in AnyPreds(txt) : Anonymize(txt, m, ps)

PseudonymizeUntrusted ==
    /\ pc = "idle"
    /\ \E txt \in UntrustedTexts :
          \E ps \in AnyPreds(txt) : Pseudonymize(txt, ps)

NextUntrusted ==
    \/ AnonymizeUntrusted
    \/ PseudonymizeUntrusted
    \/ BuildStep
    \/ BuildFinish

SpecUntrusted == Init /\ [][NextUntrusted]_vars

(***************************************************************************)
(* SpecRoundTrip: earlier generate calls fill the registry, then one text  *)
(* is pseudonymized, its mapping downloaded, and the text restored, by the *)
(* registry and by the depseudonymisation page.                            *)
(***************************************************************************)
\* The n-th text an earlier call registered.
Filler(n) == [i \in 1..n |-> "c"]

FillRegistry ==
    /\ pc = "idle"
    /\ Len(pseudonym_table) < MaxFill
    /\ Generate(Person, Filler(Len(pseudonym_table) + 1))

RoundTripTexts == { <<"a">>, <<"a", " ", "b">> }

PseudonymizeOnce ==
    /\ pc = "idle"
    /\ \E txt \in RoundTripTexts :
          \E ps \in ContractPreds(txt, { Person }) : Pseudonymize(txt, ps)

NextRoundTrip ==
    \/ FillRegistry
    \/ PseudonymizeOnce
    \/ BuildStep
    \/ BuildFinish
    \/ ReverseProcessed
    \/ DisplayResults
    \/ ShowDepseudonymisation

SpecRoundTrip == Init /\ [][NextRoundTrip]_vars

(***************************************************************************)
(* SpecConc: the sessions of the application share one cached processor    *)
(* (load_entity_processor), each session running in a thread of its own;   *)
(* generate holds no lock, so its statements interleave.                   *)
(***************************************************************************)
ConcTexts == { <<"a">>, <<"b">> }

\* A thread enters generate(label, x).
GenEnter(t, label, x) ==
    /\ th[t].pc \in { "idle", "returned" }
    /\ th' = [th EXCEPT ![t] = [IdleThread EXCEPT !.pc = "l38", !.label = label, !.x = x]]
    /\ UNCHANGED << regvars, rev_call, context_window, runvars, uivars, map_call >>

\* Line 38: if original_text in self.pseudonym_table
GenCheck(t) ==
    /\ th[t].pc = "l38"
    /\ th' = [th EXCEPT ![t].pc =
                 IF DictHas(pseudonym_table, th[t].x) THEN "l39" ELSE "l41"]
    /\ UNCHANGED << regvars, rev_call, context_window, runvars, uivars, map_call >>

\* Line 39: return self.pseudonym_table[original_text]
GenReturnExisting(t) ==
    /\ th[t].pc = "l39"
    /\ th' = [th EXCEPT ![t].pc = "returned",
                        ![t].ret = DictGet(pseudonym_table, th[t].x)]
    /\ UNCHANGED << regvars, rev_call, context_window, runvars, uivars, map_call >>

\* Line 41, the read of self.counter[label] += 1
GenReadCounter(t) ==
    /\ th[t].pc = "l41"
    /\ th' = [th EXCEPT ![t].pc = "l41w", ![t].tmp = counter[th[t].label]]
    /\ UNCHANGED << regvars, rev_call, context_window, runvars, uivars, map_call >>

\* Line 41, the write of self.counter[label] += 1
GenWriteCounter(t) ==
    /\ th[t].pc = "l41w"
    /\ counter' = [counter EXCEPT ![th[t].label] = th[t].tmp + 1]
    /\ th' = [th EXCEPT ![t].pc = "l42"]
    /\ UNCHANGED << pseudonym_table, reverse_table, rev_call, context_window,
                    runvars, uivars, map_call >>

\* Line 42: pseudonym = f"{label}_{self.counter[label]}"
GenFormat(t) ==
    /\ th[t].pc = "l42"
    /\ th' = [th EXCEPT ![t].pc = "l43",
                        ![t].pseudonym = Pseudonym(th[t].label, counter[th[t].label])]
    /\ UNCHANGED << regvars, rev_call, context_window, runvars, uivars, map_call >>

\* Line 43: self.pseudonym_table[original_text] = pseudonym
GenSetForward(t) ==
    /\ th[t].pc = "l43"
    /\ pseudonym_table' = DictSet(pseudonym_table, th[t].x, th[t].pseudonym)
    /\ th' = [th EXCEPT ![t].pc = "l44"]
    /\ UNCHANGED << counter, reverse_table, rev_call, context_window, runvars, uivars, map_call >>

\* Lines 44-45: self.reverse_table[pseudonym] = original_text; return pseudonym
GenSetReverse(t) ==
    /\ th[t].pc = "l44"
    /\ reverse_table' = DictSet(reverse_table, th[t].pseudonym, th[t].x)
    /\ th' = [th EXCEPT ![t].pc = "returned", ![t].ret = th[t].pseudonym]
    /\ UNCHANGED << counter, pseudonym_table, rev_call, context_window, runvars, uivars, map_call >>

NextConc ==
    \/ \E t \in Threads, x \in ConcTexts : GenEnter(t, Person, x)
    \/ \E t \in Threads : GenCheck(t)
    \/ \E t \in Threads : GenReturnExisting(t)
    \/ \E t \in Threads : GenReadCounter(t)
    \/ \E t \in Threads : GenWriteCounter(t)
    \/ \E t \in Threads : GenFormat(t)
    \/ \E t \in Threads : GenSetForward(t)
    \/ \E t \in Threads : GenSetReverse(t)

SpecConc == Init /\ [][NextConc]_vars

(***************************************************************************)
(* SpecThreshold: one call, the detector answering with scores under, at   *)
(* and over the threshold, or with no score.                               *)
(***************************************************************************)
ThresholdTexts == { <<"a", "b">>, <<"a", " ", "a">> }

\* Scores in hundredths around the threshold.
Scores == { Threshold - 1, Threshold, Threshold + 1 }

\* A prediction the detector gave no score.
Unscored(p) == [p EXCEPT !.has_score = FALSE, !.score = 0]

\* Predictions that keep the contract, with any score or none, in any order.
ScoredPreds(txt) ==
    LET scored == { Pred(txt, s, e, Person, sc) :
                       s \in 0..Len(txt), e \in 0..Len(txt), sc \in Scores }
        one == { p \in scored \cup { Unscored(p) : p \in scored } :
                    ValidSpan(txt, p.start, p.end) }
    IN  { ps \in SeqsUpTo(one, MaxCands) : NonOverlapping(ps) }

AnonymizeScored ==
    /\ pc = "idle"
    /\ \E txt \in ThresholdTexts, m \in TagMaps :
          \E ps \in ScoredPreds(txt) : Anonymize(txt, m, ps)

PseudonymizeScored ==
    /\ pc = "idle"
    /\ \E txt \in ThresholdTexts :
          \E ps \in ScoredPreds(txt) : Pseudonymize(txt, ps)

NextThreshold ==
    \/ AnonymizeScored
    \/ PseudonymizeScored
    \/ BuildStep
    \/ BuildFinish

SpecThreshold == Init /\ [][NextThreshold]_vars

(***************************************************************************)
(* SpecReverse: texts are registered, and reverse_pseudonymization is      *)
(* called on any text, among them tokens that look like pseudonyms.        *)
(***************************************************************************)
ReverseOriginals == { <<"a">>, <<"b">> }

TokenAlphabet == { "P", "_", "1", "2", "a" }

ReverseTexts == UNION { [1..k -> TokenAlphabet] : k \in 0..MaxLen }

RegisterText ==
    /\ pc = "idle"
    /\ \E x \in ReverseOriginals : Generate(Person, x)

ReverseAnyText ==
    /\ pc = "idle"
    /\ \E txt \in ReverseTexts : ReversePseudonymization(txt)

NextReverse ==
    \/ RegisterText
    \/ ReverseAnyText

SpecReverse == Init /\ [][NextReverse]_vars

(***************************************************************************)
(* SpecMap: _char_to_word_index called on any list of word spans, in       *)
(* ascending order and not overlapping, and any offset.                    *)
(***************************************************************************)
\* The spans [ws, we) with 0 <= ws < we <= MaxLen + 1.
WordSpanSet == { sp \in (0..MaxLen) \X (1..(MaxLen + 1)) : sp[1] < sp[2] }

Ascending(spans) ==
    \A i \in 1..(Len(spans) - 1) : spans[i][2] <= spans[i + 1][1]

WordSpanLists == { l \in SeqsUpTo(WordSpanSet, MaxLen) : Ascending(l) }

CharToWordIndex ==
    /\ ~map_call.called
    /\ \E spans \in WordSpanLists, char_idx \in 0..(MaxLen + 2) :
          map_call' = [called |-> TRUE, char_idx |-> char_idx, word_spans |-> spans,
                       val |-> _char_to_word_index(char_idx, spans)]
    /\ UNCHANGED << regvars, rev_call, context_window, runvars, uivars, th >>

NextMap == CharToWordIndex

SpecMap == Init /\ [][NextMap]_vars

(***************************************************************************)
(* SpecWindow: one call on a processor built with any context window, from *)
(* no word at all to more words than the text has.                         *)
(***************************************************************************)
Windows == { 0, 1, DefaultWindow }

\* Texts of up to MaxLen + 2 characters: up to three one-letter words.
WindowTexts == UNION { [1..k -> { "a", " " }] : k \in 0..(MaxLen + 2) }

PseudonymizeWindowed ==
    /\ pc = "idle"
    /\ \E txt \in WindowTexts :
          \E ps \in ContractPreds(txt, { Person }) : Pseudonymize(txt, ps)

NextWindow ==
    \/ PseudonymizeWindowed
    \/ BuildStep
    \/ BuildFinish

SpecWindow == InitWith(Windows) /\ [][NextWindow]_vars

(***************************************************************************)
(* The registry under pseudonymize runs.                                   *)
(***************************************************************************)
\* The step is one generate call made by the loop of a pseudonymize run.
GenerateStep ==
    pc = "loop" /\ mode = "pseudonymize" /\ Len(entities') = Len(entities) + 1

\* The entity that call was made for: its label and text are the arguments,
\* its replacement_text the value returned.
Called == entities'[Len(entities')]

\* The label a pseudonym was issued under.
IssuedUnder(pseudonym) ==
    CHOOSE l \in Labels : \E n \in 1..Len(pseudonym_table) : pseudonym = Pseudonym(l, n)

\* C3: generate is idempotent and stable.  A call for a text that already
\* has a pseudonym returns that pseudonym and changes no counter and no
\* table; a call for a new text increments the counter of its label by one,
\* and nothing else; no call changes the pseudonym an earlier call assigned.
GenerateIdempotent ==
    [][ /\ \A i \in 1..Len(pseudonym_table) :
              /\ Len(pseudonym_table') >= i
              /\ pseudonym_table'[i] = pseudonym_table[i]
        /\ GenerateStep =>
              IF DictHas(pseudonym_table, Called.text)
              THEN /\ Called.replacement_text = DictGet(pseudonym_table, Called.text)
                   /\ UNCHANGED regvars
              ELSE /\ counter' = [counter EXCEPT ![Called.label] = @ + 1]
                   /\ Called.replacement_text = DictGet(pseudonym_table', Called.text)
      ]_vars

\* C3 witness: a run met the same text twice and gave it one pseudonym, the
\* counters having moved once.
GenerateIdempotentWitness ==
    /\ pc = "done" /\ mode = "pseudonymize"
    /\ Len(entities) = 2
    /\ entities[1].text = entities[2].text
    /\ entities[1].replacement_text = entities[2].replacement_text
    /\ Len(pseudonym_table) = 1
    /\ \E l \in Labels : counter = [k \in Labels |-> IF k = l THEN 1 ELSE 0]

\* C7: two distinct original texts never share a pseudonym, and the forward
\* and reverse tables are inverses of each other, of the same size.
RegistryBijective ==
    /\ \A i, j \in 1..Len(pseudonym_table) :
          i # j => /\ pseudonym_table[i][1] # pseudonym_table[j][1]
                   /\ pseudonym_table[i][2] # pseudonym_table[j][2]
    /\ \A i \in 1..Len(pseudonym_table) :
          /\ DictHas(reverse_table, pseudonym_table[i][2])
          /\ DictGet(reverse_table, pseudonym_table[i][2]) = pseudonym_table[i][1]
    /\ \A i \in 1..Len(reverse_table) :
          /\ DictHas(pseudonym_table, reverse_table[i][2])
          /\ DictGet(pseudonym_table, reverse_table[i][2]) = reverse_table[i][1]
    /\ Len(reverse_table) = Len(pseudonym_table)

\* C7 witness: four texts registered, under both labels.
RegistryBijectiveWitness ==
    /\ Len(pseudonym_table) = 4
    /\ \A l \in Labels : counter[l] >= 1

\* C10: first writer wins across labels.  A generate call under a label for
\* a text registered under another label returns the pseudonym of the first
\* label, leaves the counter of its own label alone and adds no entry.
FirstWriterWins ==
    [][ ( /\ GenerateStep
          /\ DictHas(pseudonym_table, Called.text)
          /\ IssuedUnder(DictGet(pseudonym_table, Called.text)) # Called.label )
        => /\ IssuedUnder(Called.replacement_text) # Called.label
           /\ Called.replacement_text = DictGet(pseudonym_table, Called.text)
           /\ counter'[Called.label] = counter[Called.label]
           /\ pseudonym_table' = pseudonym_table
           /\ reverse_table' = reverse_table
      ]_vars

\* C10 witness: an entity of one label carries the pseudonym of another.
FirstWriterWinsWitness ==
    /\ mode = "pseudonymize"
    /\ \E i \in 1..Len(entities) :
          /\ DictHas(pseudonym_table, entities[i].text)
          /\ IssuedUnder(entities[i].replacement_text) # entities[i].label

(***************************************************************************)
(* The splice of _build_processing.                                        *)
(***************************************************************************)
\* Every span keeps the detector contract and no two spans overlap.
InContract(txt, spans) ==
    /\ \A i \in 1..Len(spans) : ValidSpan(txt, spans[i].start, spans[i].end)
    /\ NonOverlapping(spans)

RECURSIVE RewrittenFrom(_, _, _)
\* txt read left to right from the 0-based offset p: a span of ents that
\* starts at p gives its replacement and the reading goes on at its end;
\* any other character is kept.
RewrittenFrom(txt, ents, p) ==
    IF p >= Len(txt) THEN << >>
    ELSE IF \E i \in 1..Len(ents) : ents[i].char_position.start = p
    THEN LET e == ents[CHOOSE i \in 1..Len(ents) : ents[i].char_position.start = p]
         IN  e.replacement_text \o RewrittenFrom(txt, ents, e.char_position.end)
    ELSE << txt[p + 1] >> \o RewrittenFrom(txt, ents, p + 1)

Rewritten(txt, ents) == RewrittenFrom(txt, ents, 0)

RECURSIVE LengthGain(_, _)
\* The sum over ents[i..] of len(replacement) - len(span text).
LengthGain(ents, i) ==
    IF i > Len(ents) THEN 0
    ELSE Len(ents[i].replacement_text) - Len(ents[i].text) + LengthGain(ents, i + 1)

\* C1: for spans in the contract that do not overlap, before the span that
\* starts at s is spliced redacted[:s] equals text[:s]; after every splice
\* redacted is the text with each span handled so far replaced and every
\* other character kept in place; the processed_text returned is the text
\* with each span replaced by its replacement.
SpliceRightToLeft ==
    (mode # "none" /\ InContract(text, sorted_entities)) =>
        /\ (pc = "loop" /\ Len(entities) < Len(sorted_entities)) =>
              LET s == sorted_entities[Len(entities) + 1].start
              IN  PyPrefix(redacted, s) = PyPrefix(text, s)
        /\ redacted = Rewritten(text, entities)
        /\ pc = "done" =>
              /\ Len(result.entities) = Len(sorted_entities)
              /\ result.processed_text = Rewritten(text, result.entities)

\* C1 witness: a call returned after it replaced two spans the detector gave
\* in left-to-right order, a kept character standing between them, by
\* replacements longer than the spans.
SpliceRightToLeftWitness ==
    /\ pc = "done"
    /\ Len(result.entities) = 2
    /\ raw_preds[1].start < raw_preds[2].start
    /\ raw_preds[1].end < raw_preds[2].start
    /\ \A i \in 1..2 : Len(result.entities[i].replacement_text) > Len(result.entities[i].text)
    /\ result.processed_text # text

\* C2: the length of the processed_text returned is len(text) plus the sum
\* over the spans of len(replacement) - len(span text).
ProcessedLength ==
    (pc = "done" /\ InContract(text, sorted_entities)) =>
        Len(result.processed_text) = Len(text) + LengthGain(result.entities, 1)

\* C2 witness: a call returned a text shorter than the one it was given,
\* having replaced two spans.
ProcessedLengthWitness ==
    /\ pc = "done"
    /\ Len(result.entities) = 2
    /\ Len(result.processed_text) < Len(text)

\* C9: a prediction out of the contract is skipped.  No Entity is built for
\* it, and the text is rewritten as for the valid predictions alone.
InvalidSpanSkipped ==
    pc \in { "done", "raised" } =>
        LET valid == SelectSeq(entities,
                        LAMBDA e : ValidSpan(text, e.char_position.start, e.char_position.end))
        IN  /\ entities = valid
            /\ NonOverlapping([i \in 1..Len(valid) |-> valid[i].char_position])
                  => redacted = Rewritten(text, valid)

(***************************************************************************)
(* Reversal.                                                               *)
(***************************************************************************)
\* No registered pseudonym occurs in the text that was pseudonymized.
PlainTextFree ==
    \A i \in 1..Len(reverse_table) : ~IsSubstring(reverse_table[i][1], text)

\* C4: round trip.  reverse applied to the text a pseudonymize call returned
\* gives the original text, when no pseudonym occurs in the original text.
RoundTrip ==
    ( /\ pc = "done" /\ mode = "pseudonymize"
      /\ rev_call.called /\ rev_call.text = result.processed_text
      /\ PlainTextFree )
    => rev_call.val = text

\* C5: reverse gives, for an input that is one registered pseudonym, the
\* original text of that pseudonym, whatever shorter pseudonym it contains.
LongerPseudonymFirst ==
    (rev_call.called /\ DictHas(reverse_table, rev_call.text))
    => rev_call.val = DictGet(reverse_table, rev_call.text)

\* C8: the mapping downloaded is keyed pseudonym -> original, and the
\* depseudonymisation page fed with it and the pseudonymized text shows the
\* original text.
MappingDocRestores ==
    /\ mapping_doc.written =>
          \A i \in 1..Len(mapping_doc.items) :
              /\ DictHas(reverse_table, mapping_doc.items[i][1])
              /\ DictGet(reverse_table, mapping_doc.items[i][1]) = mapping_doc.items[i][2]
    /\ (restored.shown /\ PlainTextFree) => restored.content = text

(***************************************************************************)
(* Concurrent callers of generate.                                         *)
(***************************************************************************)
\* C6: the test and the insertion of generate are one atomic unit.  Two
\* calls for one text return one pseudonym, the counter of a label is the
\* number of texts registered under it, and no reverse entry is lost or
\* left without its forward entry.
GenerateAtomic ==
    /\ \A t, u \in Threads :
          (th[t].pc = "returned" /\ th[u].pc = "returned" /\ th[t].x = th[u].x)
              => th[t].ret = th[u].ret
    /\ (\A t \in Threads : th[t].pc \in { "idle", "returned" }) =>
          /\ counter[Person] = Len(pseudonym_table)
          /\ Len(reverse_table) = Len(pseudonym_table)

(***************************************************************************)
(* The replacement rule of anonymize.                                      *)
(***************************************************************************)
RECURSIVE ShiftFrom(_, _, _)
\* How far the character at offset p of the text moved in the processed
\* text: the sum of len(replacement) - len(span text) over the spans of
\* ents[i..] that start before p.
ShiftFrom(ents, p, i) ==
    IF i > Len(ents) THEN 0
    ELSE (IF ents[i].char_position.start < p
          THEN Len(ents[i].replacement_text) - Len(ents[i].text) ELSE 0)
         + ShiftFrom(ents, p, i + 1)

\* What stands in the processed text where the span of e stood in the text.
InPlaceOf(e) ==
    LET at == e.char_position.start
                + ShiftFrom(result.entities, e.char_position.start, 1)
    IN  SubSeq(result.processed_text, at + 1, at + Len(e.replacement_text))

\* C11: anonymize passes through an entity whose label has no tag.  The
\* replacement of such an entity is its own span text, and its characters
\* stand unchanged in processed_text; an entity whose label has a tag is
\* replaced by exactly that tag.
AnonymizePassThrough ==
    (pc = "done" /\ mode = "anonymize" /\ InContract(text, sorted_entities)) =>
        \A i \in 1..Len(result.entities) :
            LET e == result.entities[i]
                span == SubSeq(text, e.char_position.start + 1, e.char_position.end)
                tags == { k \in 1..Len(label_to_tag) : label_to_tag[k][1] = e.label }
            IN  IF tags = {}
                THEN e.replacement_text = span /\ InPlaceOf(e) = span
                ELSE \A k \in tags :
                        /\ e.replacement_text = label_to_tag[k][2]
                        /\ InPlaceOf(e) = label_to_tag[k][2]

\* C11 witness: an anonymize call returned with one entity replaced by its
\* tag and, to its right, one entity of a label without a tag left as it was.
AnonymizePassThroughWitness ==
    /\ pc = "done" /\ mode = "anonymize"
    /\ Len(result.entities) = 2
    /\ ~DictHas(label_to_tag, result.entities[1].label)
    /\ result.entities[1].replacement_text = result.entities[1].text
    /\ DictHas(label_to_tag, result.entities[2].label)
    /\ result.entities[2].replacement_text = <<"#">>
    /\ result.processed_text # text

(***************************************************************************)
(* The threshold filter.                                                   *)
(***************************************************************************)
\* The predictions of the detector whose score is at least the threshold.
AtLeastThreshold ==
    { i \in 1..Len(raw_preds) :
          raw_preds[i].has_score /\ raw_preds[i].score >= Threshold }

\* C12: exactly the predictions with score >= threshold become entities, a
\* prediction without a score counting as 0.0.  A prediction under the
\* threshold gives no Entity, no replacement in processed_text and, under
\* pseudonymize, no entry in the registry and no counter increment.
ThresholdFilter ==
    pc = "done" =>
        /\ Len(result.entities) = Cardinality(AtLeastThreshold)
        /\ \A i \in AtLeastThreshold :
              \E j \in 1..Len(result.entities) :
                  /\ result.entities[j].char_position.start = raw_preds[i].start
                  /\ result.entities[j].char_position.end = raw_preds[i].end
                  /\ result.entities[j].detection_confidence = raw_preds[i].score
        /\ \A i \in (1..Len(raw_preds)) \ AtLeastThreshold :
              (\A k \in AtLeastThreshold : raw_preds[k].start # raw_preds[i].start)
                  => LET at == raw_preds[i].start
                                 + ShiftFrom(result.entities, raw_preds[i].start, 1)
                     IN  SubSeq(result.processed_text, at + 1, at + Len(raw_preds[i].text))
                             = raw_preds[i].text
        /\ mode = "pseudonymize" =>
              /\ { pseudonym_table[k][1] : k \in 1..Len(pseudonym_table) }
                    = { raw_preds[i].text : i \in AtLeastThreshold }
              /\ counter[Person] = Len(pseudonym_table)
              /\ Len(reverse_table) = Len(pseudonym_table)

\* C12 witness: a pseudonymize call returned having kept the prediction whose
\* score is the threshold itself and dropped the one without a score: one
\* entity, one counter increment.
ThresholdFilterWitness ==
    /\ pc = "done" /\ mode = "pseudonymize"
    /\ Len(raw_preds) = 2
    /\ \E i, j \in 1..2 :
          /\ raw_preds[i].has_score /\ raw_preds[i].score = Threshold
          /\ ~raw_preds[j].has_score
    /\ Len(result.entities) = 1
    /\ counter[Person] = 1

(***************************************************************************)
(* Reversal of a text that holds no pseudonym.                             *)
(***************************************************************************)
\* C13: reversal is best-effort.  A reverse call returns, and changes no
\* counter and neither table; on a text in which no registered pseudonym
\* occurs (a token that only looks like a pseudonym, any text when the
\* registry is empty) it returns the text unchanged.
ReverseBestEffort ==
    [][ (rev_call' # rev_call) =>
            /\ rev_call'.called
            /\ UNCHANGED regvars
            /\ (\A i \in 1..Len(reverse_table) :
                    ~IsSubstring(reverse_table[i][1], rev_call'.text))
                  => rev_call'.val = rev_call'.text
      ]_vars

\* C13 witness: with P_1 the one registered pseudonym, reverse was called on
\* the token P_2 and returned it.
ReverseBestEffortWitness ==
    /\ rev_call.called
    /\ rev_call.text = << "P", "_", "2" >>
    /\ rev_call.val = rev_call.text
    /\ Len(reverse_table) = 1
    /\ reverse_table[1][1] = << "P", "_", "1" >>

(***************************************************************************)
(* The character-to-word map.                                              *)
(***************************************************************************)
\* C14: on a non-empty list of word spans the map returns the index of the
\* span that holds char_idx if there is one; else max(0, i - 1) for the
\* first span i that starts after char_idx; else the index of the last
\* span.  The value is a valid index, it does not decrease as char_idx
\* grows, and offset 0 maps to word 0.
CharToWordIndexCases ==
    (map_call.called /\ map_call.word_spans # << >>) =>
        LET s == map_call.word_spans
            c == map_call.char_idx
            v == map_call.val
            holds == { i \in 0..(Len(s) - 1) : s[i + 1][1] <= c /\ c < s[i + 1][2] }
            after == { i \in 0..(Len(s) - 1) : c < s[i + 1][1] }
        IN  /\ holds # {} => v \in holds
            /\ (holds = {} /\ after # {}) =>
                  \E i \in after : (\A j \in after : i <= j) /\ v = Max(0, i - 1)
            /\ (holds = {} /\ after = {}) => v = Len(s) - 1
            /\ 0 <= v /\ v <= Len(s) - 1
            /\ \A b \in 0..c : _char_to_word_index(b, s) <= v
            /\ c = 0 => v = 0

\* C14 witness: the offset asked for lies in the gap between the first two
\* of three words, and maps to the word before the gap.
CharToWordIndexCasesWitness ==
    /\ map_call.called
    /\ Len(map_call.word_spans) = 3
    /\ map_call.word_spans[1][2] <= map_call.char_idx
    /\ map_call.char_idx < map_call.word_spans[2][1]
    /\ map_call.val = 0

(***************************************************************************)
(* A text without words.                                                   *)
(***************************************************************************)
\* C15: an empty word index is handled without failure.  The map called on
\* an empty list of word spans returns the index 0, never a negative index;
\* a call on a text without words and with a candidate span returns, with a
\* ContextSnippet for each entity.
EmptyWordIndexHandled ==
    /\ (map_call.called /\ map_call.word_spans = << >>) => map_call.val = 0
    /\ (mode # "none" /\ word_spans = << >> /\ InContract(text, sorted_entities)) =>
          /\ \A i \in 1..Len(entities) :
                /\ entities[i].word_position.start = 0
                /\ entities[i].word_position.end >= 0
          /\ pc # "raised"
          /\ pc = "done" => Len(result.contexts) = Len(sorted_entities)

(***************************************************************************)
(* Context windows.                                                        *)
(***************************************************************************)
\* C16: context windows never read outside the text.  On a text with at
\* least one word, for every span in the contract and every window >= 0,
\* 0 <= cw_start <= cw_end - 1 <= total_words - 1, both word_spans lookups
\* are in range (the call does not raise), and the bounds cs and ce of the
\* slices lie in [0, len(text)].
WindowInsideText ==
    (mode # "none" /\ word_spans # << >> /\ InContract(text, sorted_entities)) =>
        /\ pc # "raised"
        /\ \A i \in 1..Len(entities) :
              LET total_words == Len(word_spans)
                  ws == entities[i].word_position.start
                  we == entities[i].word_position.end
                  lo == ws - context_window
                  hi == we + context_window
                  cw_start == IF lo > 0 THEN lo ELSE 0
                  cw_end == IF hi < total_words THEN hi ELSE total_words
              IN  /\ 0 <= cw_start
                  /\ cw_start <= cw_end - 1
                  /\ cw_end - 1 <= total_words - 1
                  /\ word_spans[cw_start + 1][1] \in 0..Len(text)
                  /\ word_spans[cw_end][2] \in 0..Len(text)

\* C16 witness: a call with a window of more words than the text has
\* returned the snippet of the middle word of three, both sides non-empty.
WindowInsideTextWitness ==
    /\ pc = "done"
    /\ Len(word_spans) = 3
    /\ context_window > Len(word_spans)
    /\ \E i \in 1..Len(result.contexts) :
          /\ result.contexts[i].left # << >>
          /\ result.contexts[i].right # << >>

\* The number of whitespace-delimited words of s.
WordCount(s) == Len(_compute_word_spans(s))

\* C17: each ContextSnippet is bounded by the window.  Its left is the
\* stretch of the text that ends where the span starts, its right the
\* stretch that starts where the span ends, and each holds at most window
\* words.
SnippetWithinWindow ==
    (pc = "done" /\ InContract(text, sorted_entities)) =>
        \A i \in 1..Len(result.contexts) :
            LET c == result.contexts[i]
                start == c.entity.char_position.start
                end == c.entity.char_position.end
            IN  /\ c.left = SubSeq(text, start - Len(c.left) + 1, start)
                /\ c.right = SubSeq(text, end + 1, end + Len(c.right))
                /\ WordCount(c.left) <= c.window
                /\ WordCount(c.right) <= c.window

(***************************************************************************)
(* The entities of a result.                                               *)
(***************************************************************************)
\* C18: every Entity built from a candidate in the detector contract has
\* char_position.start < char_position.end <= len(original_text), the text
\* at that range is the entity's text, and word_position.start <=
\* word_position.end.
EntityWellFormed ==
    (mode # "none" /\ InContract(text, sorted_entities)) =>
        /\ \A i \in 1..Len(entities) :
              LET e == entities[i]
              IN  /\ e.char_position.start < e.char_position.end
                  /\ e.char_position.end <= Len(text)
                  /\ SubSeq(text, e.char_position.start + 1, e.char_position.end) = e.text
                  /\ e.word_position.start <= e.word_position.end
        /\ pc = "done" => result.entities = entities /\ result.original_text = text

\* C18 witness: a call returned two entities, one of them a word, the other
\* the whitespace after it, both mapped to that word.
EntityWellFormedWitness ==
    /\ pc = "done"
    /\ Len(result.entities) = 2
    /\ result.entities[1].text = << " " >>
    /\ result.entities[2].text = << "a" >>
    /\ result.entities[1].word_position = result.entities[2].word_position

\* C19: the entities of a result are in right-to-left collection order,
\* the rightmost first, in whatever order the detector gave the candidates;
\* contexts has the length of entities and contexts[i] is the snippet of
\* entities[i].
EntitiesRightToLeft ==
    pc = "done" =>
        /\ Len(result.entities) = Len(raw_preds)
        /\ \A i, j \in 1..Len(result.entities) :
              i < j => result.entities[i].char_position.start
                          >= result.entities[j].char_position.start
        /\ Len(result.contexts) = Len(result.entities)
        /\ \A i \in 1..Len(result.contexts) :
              LET c == result.contexts[i]
                  e == result.entities[i]
              IN  /\ c.entity = e
                  /\ c.left = SubSeq(text, e.char_position.start - Len(c.left) + 1,
                                     e.char_position.start)
                  /\ c.right = SubSeq(text, e.char_position.end + 1,
                                      e.char_position.end + Len(c.right))

\* C19 witness: the detector gave two candidates left to right, and the
\* result lists the right one first, each with its own snippet.
EntitiesRightToLeftWitness ==
    /\ pc = "done"
    /\ Len(raw_preds) = 2
    /\ raw_preds[1].start < raw_preds[2].start
    /\ result.entities[1].char_position.start = raw_preds[2].start
    /\ result.entities[2].char_position.start = raw_preds[1].start
    /\ result.contexts[1].left # << >>
    /\ result.contexts[2].right # << >>

\* C20: the pseudonym_table of a result maps the text of each entity with a
\* non-empty replacement to its replacement_text.  Of several entities with
\* one text, the last in collection order (the leftmost in the text) among
\* those with a non-empty replacement gives the entry; an entity with an
\* empty replacement neither adds nor removes an entry.
FlatMapLastWins ==
    pc = "done" =>
        LET ents == result.entities
            t == result.pseudonym_table
            filled(x) == { i \in 1..Len(ents) :
                              ents[i].text = x /\ ents[i].replacement_text # << >> }
        IN  /\ \A k \in 1..Len(t) : filled(t[k][1]) # {}
            /\ \A k, m \in 1..Len(t) : k # m => t[k][1] # t[m][1]
            /\ \A i \in 1..Len(ents) :
                  IF filled(ents[i].text) = {}
                  THEN \A k \in 1..Len(t) : t[k][1] # ents[i].text
                  ELSE \E k \in 1..Len(t) :
                          /\ t[k][1] = ents[i].text
                          /\ \E last \in filled(ents[i].text) :
                                /\ \A j \in filled(ents[i].text) : j <= last
                                /\ t[k][2] = ents[last].replacement_text

\* C20 witness: two entities of one text with two replacements, the tag and
\* the text itself; the entry is the replacement of the left one.
FlatMapLastWinsWitness ==
    /\ pc = "done"
    /\ Len(result.entities) = 2
    /\ result.entities[1].text = result.entities[2].text
    /\ result.entities[1].replacement_text # << >>
    /\ result.entities[2].replacement_text # << >>
    /\ result.entities[1].replacement_text # result.entities[2].replacement_text
    /\ result.pseudonym_table
          = << << result.entities[2].text, result.entities[2].replacement_text >> >>

(***************************************************************************)
(* Counters and issued pseudonyms.                                         *)
(***************************************************************************)
\* The pseudonyms of the forward table, in the order they were issued.
Issued == [i \in 1..Len(pseudonym_table) |-> pseudonym_table[i][2]]

\* The registered pseudonyms that carry the label l: l, "_" and a number.
Carrying(l) ==
    { i \in 1..Len(Issued) :
          \E n \in 1..Len(Issued) : Issued[i] = Pseudonym(l, n) }

\* C21: in every state reached by generate calls the counter of each label
\* is the number of registered pseudonyms that carry the label, and those
\* pseudonyms are label_1 .. label_n, each once, issued in that order; no
\* counter decreases and no entry of a table is removed or rewritten.
CountersMatchIssued ==
    /\ [](\A l \in Labels :
            /\ counter[l] = Cardinality(Carrying(l))
            /\ \A n \in 1..counter[l] :
                  Cardinality({ i \in 1..Len(Issued) : Issued[i] = Pseudonym(l, n) }) = 1
            /\ \A i, j \in Carrying(l) :
                  i < j => \E n, m \in 1..counter[l] :
                              /\ n < m
                              /\ Issued[i] = Pseudonym(l, n)
                              /\ Issued[j] = Pseudonym(l, m))
    /\ [](Len(Issued) = Cardinality(UNION { Carrying(l) : l \in Labels }))
    /\ [][ /\ \A l \in Labels : counter'[l] >= counter[l]
           /\ Len(pseudonym_table') >= Len(pseudonym_table)
           /\ Len(reverse_table') >= Len(reverse_table)
           /\ \A i \in 1..Len(pseudonym_table) : pseudonym_table'[i] = pseudonym_table[i]
           /\ \A i \in 1..Len(reverse_table) : reverse_table'[i] = reverse_table[i]
         ]_vars

\* C21 witness: four texts stand registered, two under each label, over
\* more than one run.
CountersMatchIssuedWitness ==
    /\ \A l \in Labels : counter[l] = 2
    /\ Len(pseudonym_table) = 4
    /\ Len(reverse_table) = 4
    /\ pc = "done"

====
